---- MODULE Spec2Model ----
(***************************************************************************)
(* Model of the regdoc-ai backend: section parsing and paragraph diffing   *)
(* (backend/diff_utils.py), the change classifier (backend/llm_client.py)  *)
(* and the /api/analyze handler with its streaming generator               *)
(* (backend/app.py).                                                       *)
(*                                                                         *)
(* A text is a sequence of one-character strings; '' is << >>.             *)
(***************************************************************************)
EXTENDS Integers, Sequences, FiniteSets, TLC

\* ------------------------------------------------------------------------
\* Text helpers (Python str methods used by the code)
\* ------------------------------------------------------------------------

NL == "\n"

Digits == {"0", "1", "2", "3", "4", "5", "6", "7", "8", "9"}

IsDigit(c) == c \in Digits

\* str.isspace() on the characters the model uses
IsSpace(c) == c \in {" ", NL, "\t"}

RECURSIVE LStrip(_)
LStrip(s) ==
    IF s = << >> THEN << >>
    ELSE IF IsSpace(Head(s)) THEN LStrip(Tail(s)) ELSE s

RECURSIVE RStrip(_)
RStrip(s) ==
    IF s = << >> THEN << >>
    ELSE IF IsSpace(s[Len(s)]) THEN RStrip(SubSeq(s, 1, Len(s) - 1)) ELSE s

\* str.strip()
Strip(s) == LStrip(RStrip(s))

\* str.splitlines() for the line boundary "\n": a final newline opens no
\* extra empty line, and the empty text has no line.
RECURSIVE SplitLinesFrom(_, _)
SplitLinesFrom(s, cur) ==
    IF s = << >> THEN (IF cur = << >> THEN << >> ELSE <<cur>>)
    ELSE IF Head(s) = NL THEN <<cur>> \o SplitLinesFrom(Tail(s), << >>)
    ELSE SplitLinesFrom(Tail(s), Append(cur, Head(s)))

SplitLines(s) == SplitLinesFrom(s, << >>)

\* '\n'.join(lines)
RECURSIVE JoinLines(_)
JoinLines(lines) ==
    IF lines = << >> THEN << >>
    ELSE IF Len(lines) = 1 THEN lines[1]
    ELSE lines[1] \o <<NL>> \o JoinLines(Tail(lines))

\* ------------------------------------------------------------------------
\* split_into_sections (diff_utils.py)
\* ------------------------------------------------------------------------

\* Length of the longest prefix of line made of digits and dots.
RECURSIVE NumPrefixLen(_)
NumPrefixLen(line) ==
    IF line = << >> THEN 0
    ELSE IF IsDigit(Head(line)) \/ Head(line) = "."
         THEN 1 + NumPrefixLen(Tail(line))
         ELSE 0

\* As IsSectionNumber, but any run of digits and dots that starts with a
\* digit is taken as a number ([\d.]+ after the first digit)
IsSectionNumberLoose(q) ==
    /\ q # << >>
    /\ IsDigit(q[1])

\* q matches \d+(?:\.\d+)* : digit runs separated by single dots.
IsSectionNumber(q) ==
    /\ q # << >>
    /\ IsDigit(q[1])
    /\ IsDigit(q[Len(q)])
    /\ \A i \in 1..(Len(q) - 1) : ~(q[i] = "." /\ q[i + 1] = ".")

\* Number of leading whitespace characters of s.
RECURSIVE SpaceRunLen(_)
SpaceRunLen(s) ==
    IF s = << >> THEN 0
    ELSE IF IsSpace(Head(s)) THEN 1 + SpaceRunLen(Tail(s)) ELSE 0

\* section_re.match(line) for r'^(\d+(?:\.\d+)*)(?:\s+|$)'.  The text after
\* group 1 must be whitespace or the end of the line, so group 1 can only be
\* the whole leading run of digits and dots.  The result is
\* [matched, group1, end] with end the offset m.end().
SectionMatch(line) ==
    LET n == NumPrefixLen(line)
        q == SubSeq(line, 1, n)
        after == SubSeq(line, n + 1, Len(line))
        ok == /\ IsSectionNumber(q)
              /\ (after = << >> \/ IsSpace(Head(after)))
    IN  IF ok
        THEN [matched |-> TRUE, group1 |-> q, end |-> n + SpaceRunLen(after)]
        ELSE [matched |-> FALSE, group1 |-> << >>, end |-> 0]

\* dict.setdefault(key, []) on a function from section names to lists
SetDefault(sections, key) ==
    IF key \in DOMAIN sections THEN sections
    ELSE [k \in (DOMAIN sections) \cup {key} |->
            IF k = key THEN << >> ELSE sections[k]]

\* As FlushBuffer, but a paragraph read before the first header is dropped
FlushBufferOfHeaders(st) ==
    LET para == Strip(JoinLines(st.buffer))
        secs == IF para # << >> /\ st.current_sec # <<"0">>
                THEN LET s2 == SetDefault(st.sections, st.current_sec)
                     IN  [s2 EXCEPT ![st.current_sec] = Append(@, para)]
                ELSE st.sections
    IN  [st EXCEPT !.sections = secs, !.buffer = << >>]

\* flush_buffer(): the parser state is [sections, current_sec, buffer]
FlushBuffer(st) ==
    LET para == Strip(JoinLines(st.buffer))
        secs == IF para # << >>
                THEN LET s2 == SetDefault(st.sections, st.current_sec)
                     IN  [s2 EXCEPT ![st.current_sec] = Append(@, para)]
                ELSE st.sections
    IN  [st EXCEPT !.sections = secs, !.buffer = << >>]

\* As ParseLine, but a header starts its section anew
\* (sections[current_sec] = [] in place of setdefault)
ParseLineOverwriting(st, line) ==
    LET m == SectionMatch(line)
    IN  IF m.matched
        THEN LET f == FlushBuffer(st)
                 rest == Strip(SubSeq(line, m.end + 1, Len(line)))
             IN  [sections |-> [SetDefault(f.sections, m.group1)
                                    EXCEPT ![m.group1] = << >>],
                  current_sec |-> m.group1,
                  buffer |-> IF rest # << >> THEN <<rest>> ELSE << >>]
        ELSE IF Strip(line) = << >>
             THEN FlushBuffer(st)
             ELSE [st EXCEPT !.buffer = Append(@, line)]

\* One iteration of "for line in lines"
ParseLine(st, line) ==
    LET m == SectionMatch(line)
    IN  IF m.matched
        THEN LET f == FlushBuffer(st)
                 rest == Strip(SubSeq(line, m.end + 1, Len(line)))
             IN  [sections |-> SetDefault(f.sections, m.group1),
                  current_sec |-> m.group1,
                  buffer |-> IF rest # << >> THEN <<rest>> ELSE << >>]
        ELSE IF Strip(line) = << >>
             THEN FlushBuffer(st)
             ELSE [st EXCEPT !.buffer = Append(@, line)]

RECURSIVE ParseLines(_, _)
ParseLines(st, lines) ==
    IF lines = << >> THEN st
    ELSE ParseLines(ParseLine(st, Head(lines)), Tail(lines))

\* lines = [line.rstrip() for line in text.strip().splitlines()]
TextLines(text) ==
    LET raw == SplitLines(Strip(text))
    IN  [i \in 1..Len(raw) |-> RStrip(raw[i])]

EmptySections == [k \in {} |-> << >>]

split_into_sections(text) ==
    LET st0 == [sections |-> EmptySections,
                current_sec |-> <<"0">>,
                buffer |-> << >>]
    IN  FlushBuffer(ParseLines(st0, TextLines(text))).sections

\* ------------------------------------------------------------------------
\* diff_paragraphs (diff_utils.py) with difflib.SequenceMatcher(autojunk=False)
\* Positions are Python's: 0-based, ranges half open; a[i] is a[i + 1] here.
\* ------------------------------------------------------------------------

\* Length of the common run of a and b that starts at (i, j), inside
\* a[i:ahi] and b[j:bhi].
RECURSIVE RunLen(_, _, _, _, _, _)
RunLen(a, b, i, j, ahi, bhi) ==
    IF i < ahi /\ j < bhi /\ a[i + 1] = b[j + 1]
    THEN 1 + RunLen(a, b, i + 1, j + 1, ahi, bhi)
    ELSE 0

SetMax(S) == CHOOSE x \in S : \A y \in S : y <= x

SetMin(S) == CHOOSE x \in S : \A y \in S : x <= y

\* SequenceMatcher.find_longest_match: a longest matching block of
\* a[alo:ahi] and b[blo:bhi]; of those the one starting earliest in a, and of
\* those the one starting earliest in b; (alo, blo, 0) when nothing matches.
find_longest_match(a, b, alo, ahi, blo, bhi) ==
    LET starts == (alo..(ahi - 1)) \X (blo..(bhi - 1))
        sizes == {RunLen(a, b, p[1], p[2], ahi, bhi) : p \in starts} \cup {0}
        k == SetMax(sizes)
    IN  IF k = 0 THEN <<alo, blo, 0>>
        ELSE LET besti == SetMin({p[1] : p \in
                              {q \in starts : RunLen(a, b, q[1], q[2], ahi, bhi) = k}})
                 bestj == SetMin({p[2] : p \in
                              {q \in starts : /\ q[1] = besti
                                              /\ RunLen(a, b, q[1], q[2], ahi, bhi) = k}})
             IN  <<besti, bestj, k>>

\* The recursion of get_matching_blocks: the longest match, then the pieces
\* to its left and to its right, in increasing order.
RECURSIVE MatchingBlocksIn(_, _, _, _, _, _)
MatchingBlocksIn(a, b, alo, ahi, blo, bhi) ==
    LET x == find_longest_match(a, b, alo, ahi, blo, bhi)
        i == x[1]
        j == x[2]
        k == x[3]
    IN  IF k = 0 THEN << >>
        ELSE (IF alo < i /\ blo < j
              THEN MatchingBlocksIn(a, b, alo, i, blo, j) ELSE << >>)
             \o <<x>> \o
             (IF i + k < ahi /\ j + k < bhi
              THEN MatchingBlocksIn(a, b, i + k, ahi, j + k, bhi) ELSE << >>)

\* get_matching_blocks collapses adjacent blocks into one.
RECURSIVE CollapseBlocks(_, _)
CollapseBlocks(cur, blocks) ==
    IF blocks = << >> THEN (IF cur[3] > 0 THEN <<cur>> ELSE << >>)
    ELSE LET nxt == Head(blocks)
         IN  IF cur[1] + cur[3] = nxt[1] /\ cur[2] + cur[3] = nxt[2]
             THEN CollapseBlocks(<<cur[1], cur[2], cur[3] + nxt[3]>>, Tail(blocks))
             ELSE (IF cur[3] > 0 THEN <<cur>> ELSE << >>)
                  \o CollapseBlocks(nxt, Tail(blocks))

\* SequenceMatcher.get_matching_blocks, with the closing (la, lb, 0) block
get_matching_blocks(a, b) ==
    CollapseBlocks(<<0, 0, 0>>, MatchingBlocksIn(a, b, 0, Len(a), 0, Len(b)))
        \o <<<<Len(a), Len(b), 0>>>>

\* SequenceMatcher.get_opcodes: one (tag, i1, i2, j1, j2) per stretch
RECURSIVE OpcodesFrom(_, _, _)
OpcodesFrom(blocks, i, j) ==
    IF blocks = << >> THEN << >>
    ELSE LET ai == Head(blocks)[1]
             bj == Head(blocks)[2]
             size == Head(blocks)[3]
             tag == IF i < ai /\ j < bj THEN "replace"
                    ELSE IF i < ai THEN "delete"
                    ELSE IF j < bj THEN "insert"
                    ELSE ""
         IN  (IF tag # "" THEN << <<tag, i, ai, j, bj>> >> ELSE << >>)
             \o (IF size > 0
                 THEN << <<"equal", ai, ai + size, bj, bj + size>> >> ELSE << >>)
             \o OpcodesFrom(Tail(blocks), ai + size, bj + size)

get_opcodes(a, b) == OpcodesFrom(get_matching_blocks(a, b), 0, 0)

\* [(i, paras[i]) for i in range(lo, hi)]
IndexedRange(paras, lo, hi) ==
    [n \in 1..(IF hi > lo THEN hi - lo ELSE 0) |-> <<lo + n - 1, paras[lo + n]>>]

Min2(x, y) == IF x < y THEN x ELSE y

\* As OpcodeChanges, but a replace block reports only its pairs: the
\* paragraphs the longer side has in excess are not reported
OpcodeChangesPairsOnly(op, old_paras, new_paras) ==
    LET tag == op[1]
        i1 == op[2]
        i2 == op[3]
        j1 == op[4]
        j2 == op[5]
        n == Min2(i2 - i1, j2 - j1)
    IN  IF tag = "delete"
        THEN [added |-> << >>, removed |-> IndexedRange(old_paras, i1, i2),
              changed |-> << >>]
        ELSE IF tag = "insert"
        THEN [added |-> IndexedRange(new_paras, j1, j2), removed |-> << >>,
              changed |-> << >>]
        ELSE IF tag = "replace"
        THEN [added |-> << >>,
              removed |-> << >>,
              changed |-> [m \in 1..n |->
                            << <<i1 + m - 1, old_paras[i1 + m]>>,
                               <<j1 + m - 1, new_paras[j1 + m]>> >>]]
        ELSE [added |-> << >>, removed |-> << >>, changed |-> << >>]

\* As OpcodeChanges, but the excess of a replace block is read from the
\* start of the block (range(j1, j2) and range(i1, i2))
OpcodeChangesExcessFromStart(op, old_paras, new_paras) ==
    LET tag == op[1]
        i1 == op[2]
        i2 == op[3]
        j1 == op[4]
        j2 == op[5]
        n == Min2(i2 - i1, j2 - j1)
    IN  IF tag = "delete"
        THEN [added |-> << >>, removed |-> IndexedRange(old_paras, i1, i2),
              changed |-> << >>]
        ELSE IF tag = "insert"
        THEN [added |-> IndexedRange(new_paras, j1, j2), removed |-> << >>,
              changed |-> << >>]
        ELSE IF tag = "replace"
        THEN [added |-> IF (i2 - i1) < (j2 - j1)
                        THEN IndexedRange(new_paras, j1, j2)
                        ELSE << >>,
              removed |-> IF (i2 - i1) > (j2 - j1)
                          THEN IndexedRange(old_paras, i1, i2)
                          ELSE << >>,
              changed |-> [m \in 1..n |->
                            << <<i1 + m - 1, old_paras[i1 + m]>>,
                               <<j1 + m - 1, new_paras[j1 + m]>> >>]]
        ELSE [added |-> << >>, removed |-> << >>, changed |-> << >>]

\* What one opcode adds to changes['added'], ['removed'] and ['changed']
OpcodeChanges(op, old_paras, new_paras) ==
    LET tag == op[1]
        i1 == op[2]
        i2 == op[3]
        j1 == op[4]
        j2 == op[5]
        n == Min2(i2 - i1, j2 - j1)
    IN  IF tag = "delete"
        THEN [added |-> << >>, removed |-> IndexedRange(old_paras, i1, i2),
              changed |-> << >>]
        ELSE IF tag = "insert"
        THEN [added |-> IndexedRange(new_paras, j1, j2), removed |-> << >>,
              changed |-> << >>]
        ELSE IF tag = "replace"
        THEN [added |-> IF (i2 - i1) < (j2 - j1)
                        THEN IndexedRange(new_paras, j1 + (i2 - i1), j2)
                        ELSE << >>,
              removed |-> IF (i2 - i1) > (j2 - j1)
                          THEN IndexedRange(old_paras, i1 + (j2 - j1), i2)
                          ELSE << >>,
              changed |-> [m \in 1..n |->
                            << <<i1 + m - 1, old_paras[i1 + m]>>,
                               <<j1 + m - 1, new_paras[j1 + m]>> >>]]
        ELSE [added |-> << >>, removed |-> << >>, changed |-> << >>]

RECURSIVE DiffOpcodes(_, _, _)
DiffOpcodes(ops, old_paras, new_paras) ==
    IF ops = << >> THEN [added |-> << >>, removed |-> << >>, changed |-> << >>]
    ELSE LET h == OpcodeChanges(Head(ops), old_paras, new_paras)
             t == DiffOpcodes(Tail(ops), old_paras, new_paras)
         IN  [added |-> h.added \o t.added,
              removed |-> h.removed \o t.removed,
              changed |-> h.changed \o t.changed]

diff_paragraphs(old_paras, new_paras) ==
    DiffOpcodes(get_opcodes(old_paras, new_paras), old_paras, new_paras)

\* ------------------------------------------------------------------------
\* detect_paragraph_section_changes (diff_utils.py)
\* ------------------------------------------------------------------------

DigitVal(c) ==
    CASE c = "0" -> 0 [] c = "1" -> 1 [] c = "2" -> 2 [] c = "3" -> 3
      [] c = "4" -> 4 [] c = "5" -> 5 [] c = "6" -> 6 [] c = "7" -> 7
      [] c = "8" -> 8 [] c = "9" -> 9

\* int(seg) for a run of digits
RECURSIVE ParseInt(_)
ParseInt(seg) ==
    IF seg = << >> THEN 0
    ELSE 10 * ParseInt(SubSeq(seg, 1, Len(seg) - 1)) + DigitVal(seg[Len(seg)])

\* s.split('.')
RECURSIVE SplitDotsFrom(_, _)
SplitDotsFrom(s, cur) ==
    IF s = << >> THEN <<cur>>
    ELSE IF Head(s) = "." THEN <<cur>> \o SplitDotsFrom(Tail(s), << >>)
    ELSE SplitDotsFrom(Tail(s), Append(cur, Head(s)))

\* As SortKey, but the name is compared as a string, character by character
\* ('.' sorts before the digits): sorted(all_sections) without the key
SortKeyAsString(s) ==
    [i \in DOMAIN s |-> IF s[i] = "." THEN -1 ELSE DigitVal(s[i])]

\* key=lambda s: list(map(int, s.split('.')))
SortKey(s) ==
    LET segs == SplitDotsFrom(s, << >>)
    IN  [i \in 1..Len(segs) |-> ParseInt(segs[i])]

\* Python's list comparison x < y
RECURSIVE ListLess(_, _)
ListLess(x, y) ==
    IF y = << >> THEN FALSE
    ELSE IF x = << >> THEN TRUE
    ELSE IF Head(x) # Head(y) THEN Head(x) < Head(y)
    ELSE ListLess(Tail(x), Tail(y))

\* The orders sorted(all_sections, key=...) can return: sorted() is stable,
\* and the iteration order of a set of strings is not fixed, so names with
\* equal keys (such as '1' and '01') may come in either order.
SortedOrders(all_sections) ==
    {order \in [1..Cardinality(all_sections) -> all_sections] :
        /\ \A i, j \in DOMAIN order : i # j => order[i] # order[j]
        /\ \A i, j \in DOMAIN order :
              i < j => ~ListLess(SortKey(order[j]), SortKey(order[i]))}

\* dict.get(sec, [])
GetParas(secs, sec) == IF sec \in DOMAIN secs THEN secs[sec] ELSE << >>

\* The result dict as the list of its items, in insertion order; order is
\* the order sorted() returned.
DetectWithOrder(old_secs, new_secs, order) ==
    [n \in DOMAIN order |->
        [section |-> order[n],
         diffs |-> diff_paragraphs(GetParas(old_secs, order[n]),
                                   GetParas(new_secs, order[n]))]]

\* ------------------------------------------------------------------------
\* flatten_changes (app.py)
\* ------------------------------------------------------------------------

AddedRecords(section, added) ==
    [n \in DOMAIN added |->
        [section |-> section, change_type |-> "Added",
         old |-> << >>, new |-> added[n][2], index |-> added[n][1]]]

\* As RemovedRecords, but the paragraph is written to 'new' as in the Added
\* records
RemovedRecordsAsNew(section, removed) ==
    [n \in DOMAIN removed |->
        [section |-> section, change_type |-> "Removed",
         old |-> << >>, new |-> removed[n][2], index |-> removed[n][1]]]

RemovedRecords(section, removed) ==
    [n \in DOMAIN removed |->
        [section |-> section, change_type |-> "Removed",
         old |-> removed[n][2], new |-> << >>, index |-> removed[n][1]]]

ModifiedRecords(section, changed) ==
    [n \in DOMAIN changed |->
        [section |-> section, change_type |-> "Modified",
         old |-> changed[n][1][2], new |-> changed[n][2][2],
         old_index |-> changed[n][1][1], new_index |-> changed[n][2][1]]]

\* As SectionRecords, but the removed paragraphs are left out
SectionRecordsNoRemoved(item) ==
    AddedRecords(item.section, item.diffs.added)
        \o ModifiedRecords(item.section, item.diffs.changed)

\* The records one item of raw contributes: added, removed, then changed
SectionRecords(item) ==
    AddedRecords(item.section, item.diffs.added)
        \o RemovedRecords(item.section, item.diffs.removed)
        \o ModifiedRecords(item.section, item.diffs.changed)

RECURSIVE flatten_changes(_)
flatten_changes(raw) ==
    IF raw = << >> THEN << >>
    ELSE SectionRecords(Head(raw)) \o flatten_changes(Tail(raw))

\* ------------------------------------------------------------------------
\* correct_change_type (llm_client.py)
\* ------------------------------------------------------------------------

\* As correct_change_type, but old and new are compared as they are
correct_change_type_unstripped(change) ==
    LET old == change.old
        new == change.new
    IN  IF old = << >> /\ new # << >> THEN "Added"
        ELSE IF old # << >> /\ new = << >> THEN "Removed"
        ELSE IF old # new THEN "Modified"
        ELSE "Unchanged"

correct_change_type(change) ==
    LET old == Strip(change.old)
        new == Strip(change.new)
    IN  IF old = << >> /\ new # << >> THEN "Added"
        ELSE IF old # << >> /\ new = << >> THEN "Removed"
        ELSE IF old # new THEN "Modified"
        ELSE "Unchanged"

\* ------------------------------------------------------------------------
\* Bounds and input sets
\* ------------------------------------------------------------------------

\* Most lines of an uploaded document
MaxLines == 2

\* Most requests served in one run of the process
MaxRequests == 2

\* All sequences over S of length at most n
SeqsUpTo(S, n) == UNION {[1..k -> S] : k \in 0..n}

\* The documents with at most MaxLines lines taken from lineSet
DocsOver(lineSet) == {JoinLines(ls) : ls \in SeqsUpTo(lineSet, MaxLines)}

\* Header lines "1 a", "1 b", "2 a" and "3 a": a section number and the
\* first line of its first paragraph
Line1a == <<"1", " ", "a">>

Line1b == <<"1", " ", "b">>

Line2a == <<"2", " ", "a">>

Line3a == <<"3", " ", "a">>

\* A body line "b", a blank line and a header line "1" without text
LineB == <<"b">>

LineBlank == << >>

Line1 == <<"1">>

\* Lines of the documents given to the detection
DetectLines == {Line1a, Line1b, Line2a, LineB, LineBlank, Line1}

DetectDocs == DocsOver(DetectLines)

\* The documents uploaded to the streaming endpoint
StreamDocs ==
    { << >>,
      Line1a,
      JoinLines(<<Line1b, Line2a>>),
      JoinLines(<<Line1a, Line3a>>),
      JoinLines(<<Line1a, Line2a, Line3a>>) }

\* The uploads (old_text, new_text) of a request: any two of StreamDocs, and
\* any document of DetectDocs uploaded as both versions
StreamUploads ==
    (StreamDocs \X StreamDocs) \cup {<<text, text>> : text \in DetectDocs}

\* The values the external model's reply can decode to: a JSON object with
\* the three keys the prompt asks for.
AnalyzerChangeTypes == {"New Requirement"}

\* The summary the model writes for record i of request r
SummaryText(r, i) == ToString(<<"summary of request", r, "record", i>>)

AnalyzerObjects(r, i) ==
    {[change_summary |-> SummaryText(r, i), change_type |-> t,
      potential_impact |-> "impact"] : t \in AnalyzerChangeTypes}

\* How one call of conversation.run followed by json.loads can end:
\*   an object   the reply is JSON text for an object
\*   non_object  the reply is JSON text for something else (a list, a string)
\*   bad_json    the reply is not JSON: json.loads raises JSONDecodeError
\*   llm_error   conversation.run raises
\*   hang        conversation.run never returns
NonObject == [kind |-> "non_object"]

Raised(detail) == [kind |-> "raised", detail |-> detail]

Returned(obj) == [kind |-> "returned", value |-> obj]

NoFuture == [kind |-> "pending"]

\* ------------------------------------------------------------------------
\* State
\* ------------------------------------------------------------------------

VARIABLES
    texts,       \* <<old_text, new_text>> of the request, or the two arguments
                 \* of a function that is run on its own
    reqId,       \* number of requests /api/analyze has received
    changes,     \* the flat change list of the current request
    pc,          \* where the current request stands
    idx,         \* position of the record the for loop is at (0: before it)
    first,       \* change_streamer's local "first"
    result,      \* the merged result waiting behind its separator, or the
                 \* value a function run on its own returned
    out,         \* the chunks the response body has produced so far
    executor,    \* the request's ThreadPoolExecutor
    future,      \* outcome of the awaited run_in_executor future
    calls,       \* analyze_with_llm calls submitted to worker threads
    memory,      \* exchanges saved in the module-level ConversationBufferMemory
    dispatched   \* positions whose record was submitted to the executor

vars == <<texts, reqId, changes, pc, idx, first, result, out, executor,
          future, calls, memory, dispatched>>

NoResult == [kind |-> "none"]

OpenChunk == [chunk |-> "open"]

SepChunk == [chunk |-> "sep"]

CloseChunk == [chunk |-> "close"]

ElemChunk(res) == [chunk |-> "elem", value |-> res]

\* JSONResponse({'changes': []})
EmptyResponse == [chunk |-> "empty_changes"]

NoTexts == << << >>, << >> >>

\* The state of the process before any request
Idle ==
    /\ reqId = 0
    /\ changes = << >>
    /\ pc = "idle"
    /\ idx = 0
    /\ first = TRUE
    /\ result = NoResult
    /\ out = << >>
    /\ executor = "none"
    /\ future = NoFuture
    /\ calls = {}
    /\ memory = << >>
    /\ dispatched = << >>

Init ==
    /\ texts = NoTexts
    /\ Idle

\* ------------------------------------------------------------------------
\* analyze (app.py): detect, flatten, and answer
\* ------------------------------------------------------------------------

\* detect_paragraph_section_changes: the results it can return, one for each
\* order sorted() can give the section names
detect_paragraph_section_changes(old_text, new_text) ==
    LET old_secs == split_into_sections(old_text)
        new_secs == split_into_sections(new_text)
        all_sections == (DOMAIN old_secs) \cup (DOMAIN new_secs)
    IN  {DetectWithOrder(old_secs, new_secs, order) :
            order \in SortedOrders(all_sections)}

\* flat = flatten_changes(detect_changes(old_text, new_text))
FlatChanges(old_text, new_text) ==
    {flatten_changes(raw) :
        raw \in detect_paragraph_section_changes(old_text, new_text)}

\* The change lists the uploads of StreamDocs give
StreamChangeLists ==
    UNION {FlatChanges(old_text, new_text) :
              old_text \in StreamDocs, new_text \in StreamDocs}

\* The uploads (old_text, new_text) of one request, each with a change list
\* that "Detect and flatten" can give for it
StreamDetections ==
    UNION {{[old_text |-> u[1], new_text |-> u[2], flat |-> flat] :
                flat \in FlatChanges(u[1], u[2])} : u \in StreamUploads}

\* No request is being served
Finished == pc \in {"idle", "responded", "done", "cancelled", "crashed"}

\* As NoChanges, but every change list is streamed
NoChangesNever(flat) == FALSE

\* if not flat
NoChanges(flat) == flat = << >>

Analyze ==
    /\ Finished
    /\ reqId < MaxRequests
    /\ \E d \in StreamDetections :
            /\ texts' = <<d.old_text, d.new_text>>
            /\ changes' = d.flat
            /\ IF NoChanges(d.flat)
               THEN /\ pc' = "responded"
                    /\ out' = <<EmptyResponse>>
               ELSE /\ pc' = "start"
                    /\ out' = << >>
    /\ reqId' = reqId + 1
    /\ idx' = 0
    /\ first' = TRUE
    /\ result' = NoResult
    /\ executor' = "none"
    /\ future' = NoFuture
    /\ dispatched' = << >>
    /\ UNCHANGED <<calls, memory>>

\* ------------------------------------------------------------------------
\* change_streamer (app.py): one action from each point where the generator
\* is suspended (a yield or an await) to the next one
\* ------------------------------------------------------------------------

\* executor = ThreadPoolExecutor(max_workers=1); yield b'{"changes":['
StreamOpen ==
    /\ pc = "start"
    /\ executor' = "active"
    /\ out' = <<OpenChunk>>
    /\ pc' = "opened"
    /\ UNCHANGED <<texts, reqId, changes, idx, first, result, future, calls,
                   memory, dispatched>>

\* The generator was resumed after the opening or after an element
AtLoopHead == pc \in {"opened", "elem"}

\* first = True is run once, when the generator is resumed after the opening
FirstAtLoopHead == IF pc = "opened" THEN TRUE ELSE first

\* for change in changes: await asyncio.sleep(0.1)
LoopSleep ==
    /\ AtLoopHead
    /\ idx < Len(changes)
    /\ idx' = idx + 1
    /\ first' = FirstAtLoopHead
    /\ pc' = "sleeping"
    /\ UNCHANGED <<texts, reqId, changes, result, out, executor, future,
                   calls, memory, dispatched>>

\* The loop is exhausted: yield b']}'
StreamClose ==
    /\ AtLoopHead
    /\ idx = Len(changes)
    /\ first' = FirstAtLoopHead
    /\ out' = Append(out, CloseChunk)
    /\ pc' = "closing"
    /\ UNCHANGED <<texts, reqId, changes, idx, result, executor, future,
                   calls, memory, dispatched>>

\* executor.shutdown(wait=False), after the closing was taken
Shutdown ==
    /\ pc = "closing"
    /\ executor' = "shutdown"
    /\ pc' = "done"
    /\ UNCHANGED <<texts, reqId, changes, idx, first, result, out, future,
                   calls, memory, dispatched>>

\* As CurrentChange, but the list is walked from its end
CurrentChangeReversed == changes[Len(changes) + 1 - idx]

\* The loop variable: for change in changes
CurrentChange == changes[idx]

\* As NeedsAnalysis, but every record is sent to the analyzer
AlwaysAnalysis(change) == TRUE

\* if change['change_type'] in ('Added', 'Modified')
NeedsAnalysis(change) == change.change_type \in {"Added", "Modified"}

\* The details of the else branch
RemovedDetails ==
    [change_summary |-> "Section removed",
     change_type |-> "Deletion of Requirement",
     potential_impact |-> "Verify removal in SOPs."]

\* As ErrorDetails, but the error detail is dropped
ErrorDetailsNoDetail(detail) ==
    [change_summary |-> "Error during analysis",
     change_type |-> "Error",
     potential_impact |-> ""]

\* The details of the except branch
ErrorDetails(detail) ==
    [change_summary |-> "Error during analysis",
     change_type |-> "Error",
     potential_impact |-> detail]

\* result = {**change, **details}: the keys of details win
MergeResult(change, details) == details @@ change

\* As NeedsSeparator, but no separator is ever written
NeverSeparator(isFirst) == FALSE

\* if not first: yield b','
NeedsSeparator(isFirst) == ~isFirst

\* From the merged result to the next yield: the separator, or, for the
\* first element, the element itself
Emit(details) ==
    LET res == MergeResult(CurrentChange, details)
    IN  IF NeedsSeparator(first)
        THEN /\ out' = Append(out, SepChunk)
             /\ result' = res
             /\ pc' = "sep"
             /\ first' = first
        ELSE /\ out' = Append(out, ElemChunk(res))
             /\ result' = NoResult
             /\ pc' = "elem"
             /\ first' = FALSE

\* The else branch: no call, the fixed details
SkipAnalysis ==
    /\ pc = "sleeping"
    /\ ~NeedsAnalysis(CurrentChange)
    /\ Emit(RemovedDetails)
    /\ UNCHANGED <<texts, reqId, changes, idx, executor, future, calls,
                   memory, dispatched>>

\* As MayDispatch, but a call is also submitted while one is awaited
MayDispatchEarly == pc \in {"sleeping", "awaiting"}

\* The generator submits a call only in its own iteration, after the sleep
MayDispatch == pc = "sleeping"

\* await loop.run_in_executor(executor, analyze_with_llm, change)
Dispatch ==
    /\ MayDispatch
    /\ NeedsAnalysis(CurrentChange)
    /\ calls' = calls \cup
          {[req |-> reqId, idx |-> idx, stage |-> "queued"]}
    /\ dispatched' = Append(dispatched, idx)
    /\ future' = NoFuture
    /\ pc' = "awaiting"
    /\ UNCHANGED <<texts, reqId, changes, idx, first, result, out, executor,
                   memory>>

\* The generator is resumed with the outcome of the future
ResumeAfterCall ==
    /\ pc = "awaiting"
    /\ future.kind # "pending"
    /\ future' = NoFuture
    /\ IF future.kind = "raised"
       THEN Emit(ErrorDetails(future.detail))
       ELSE IF future.kind = "returned"
       THEN Emit(future.value)
       ELSE \* {**change, **details} raises TypeError for a value that is no
            \* mapping, outside the try: the generator ends with the error
            /\ pc' = "crashed"
            /\ UNCHANGED <<first, result, out>>
    /\ UNCHANGED <<texts, reqId, changes, idx, executor, calls, memory,
                   dispatched>>

\* Resumed after the separator: first = False; yield json.dumps(result)
EmitElement ==
    /\ pc = "sep"
    /\ first' = FALSE
    /\ out' = Append(out, ElemChunk(result))
    /\ result' = NoResult
    /\ pc' = "elem"
    /\ UNCHANGED <<texts, reqId, changes, idx, executor, future, calls,
                   memory, dispatched>>

\* The calls of the current request that no worker thread has taken yet
Queued == {c \in calls : c.req = reqId /\ c.stage = "queued"}

\* The consumer disconnects or the request is cancelled: the generator is
\* never resumed again (or CancelledError, which "except Exception" does not
\* catch, is raised at its await); it has no finally block.  Cancelling the
\* awaited future cancels a call that is still queued; a call that a worker
\* thread is running cannot be cancelled and runs on.
Cancel ==
    /\ pc \in {"start", "opened", "sleeping", "awaiting", "sep", "elem",
               "closing"}
    /\ pc' = "cancelled"
    /\ calls' = calls \ Queued
    /\ UNCHANGED <<texts, reqId, changes, idx, first, result, out, executor,
                   future, memory, dispatched>>

\* ------------------------------------------------------------------------
\* analyze_with_llm (app.py) in a worker thread
\* ------------------------------------------------------------------------

\* ThreadPoolExecutor(max_workers=1)
max_workers == 1

\* The calls of request r that occupy a worker thread of its executor
Running(r) == {c \in calls : c.req = r /\ c.stage \in {"running", "hung"}}

\* What conversation.run(prompt) sends to the model: the ConversationChain
\* puts the exchanges saved in its memory in front of the prompt
ChainInput(c) == [history |-> memory, req |-> c.req, idx |-> c.idx]

\* A worker thread takes the call and conversation.run(prompt) starts
WorkerStart ==
    \E c \in calls :
        /\ c.stage = "queued"
        /\ Cardinality(Running(c.req)) < max_workers
        /\ calls' = (calls \ {c}) \cup {[c EXCEPT !.stage = "running"]}
        /\ UNCHANGED <<texts, reqId, changes, pc, idx, first, result, out,
                       executor, future, memory, dispatched>>

\* How call c can end, when it ends
Outcomes(c) ==
    {Returned(obj) : obj \in AnalyzerObjects(c.req, c.idx)}
        \cup {NonObject, Raised("JSONDecodeError"), Raised("LLMError")}

\* conversation.run saves the exchange in memory when the model answered
SavesExchange(outcome) ==
    ~(outcome.kind = "raised" /\ outcome.detail = "LLMError")

\* The request that submitted c is still waiting for it
Awaited(c) == c.req = reqId /\ pc = "awaiting"

\* The call ends: the exchange is saved, the future is set
WorkerFinish ==
    \E c \in calls : \E outcome \in Outcomes(c) :
        /\ c.stage = "running"
        /\ calls' = calls \ {c}
        /\ memory' = IF SavesExchange(outcome)
                     THEN Append(memory, c.req)
                     ELSE memory
        /\ future' = IF Awaited(c) THEN outcome ELSE future
        /\ UNCHANGED <<texts, reqId, changes, pc, idx, first, result, out,
                       executor, dispatched>>

\* The model never answers: conversation.run has no timeout
WorkerHang ==
    \E c \in calls :
        /\ c.stage = "running"
        /\ calls' = (calls \ {c}) \cup {[c EXCEPT !.stage = "hung"]}
        /\ UNCHANGED <<texts, reqId, changes, pc, idx, first, result, out,
                       executor, future, memory, dispatched>>

Next ==
    \/ Analyze
    \/ StreamOpen
    \/ LoopSleep
    \/ StreamClose
    \/ Shutdown
    \/ SkipAnalysis
    \/ Dispatch
    \/ ResumeAfterCall
    \/ EmitElement
    \/ Cancel
    \/ WorkerStart
    \/ WorkerFinish
    \/ WorkerHang

Spec == Init /\ [][Next]_vars

\* The steps of the generator: the event loop resumes a coroutine that can
\* run, as long as the consumer keeps reading
GeneratorStep ==
    \/ StreamOpen
    \/ LoopSleep
    \/ StreamClose
    \/ Shutdown
    \/ SkipAnalysis
    \/ Dispatch
    \/ ResumeAfterCall
    \/ EmitElement

\* The event loop and the worker threads keep running; whether the model
\* answers, whether the consumer stays and whether another request comes are
\* not up to the program.
FairSpec ==
    /\ Spec
    /\ WF_vars(GeneratorStep)
    /\ WF_vars(WorkerStart)
    /\ WF_vars(WorkerFinish)

\* ------------------------------------------------------------------------
\* The detection on its own: computeChanges(old_text, new_text)
\* ------------------------------------------------------------------------

\* The two versions of the end-to-end scenario:
\*   old = "1. Intro\nHello\n\n2. Body\nWorld"
\*   new = "1. Intro\nHello there\n\n2. Body\nWorld\n\n3. New\nExtra"
ScenarioOld ==
    <<"1", ".", " ", "I", "n", "t", "r", "o", NL, "H", "e", "l", "l", "o",
      NL, NL, "2", ".", " ", "B", "o", "d", "y", NL, "W", "o", "r", "l",
      "d">>

ScenarioNew ==
    <<"1", ".", " ", "I", "n", "t", "r", "o", NL, "H", "e", "l", "l", "o",
      " ", "t", "h", "e", "r", "e", NL, NL, "2", ".", " ", "B", "o", "d",
      "y", NL, "W", "o", "r", "l", "d", NL, NL, "3", ".", " ", "N", "e",
      "w", NL, "E", "x", "t", "r", "a">>

DetectInit ==
    /\ texts \in (DetectDocs \X DetectDocs) \cup {<<ScenarioOld, ScenarioNew>>}
    /\ Idle

\* raw_changes = detect_changes(old_text, new_text);
\* flat = flatten_changes(raw_changes)
DetectChanges ==
    /\ pc = "idle"
    /\ \E flat \in FlatChanges(texts[1], texts[2]) : changes' = flat
    /\ pc' = "detected"
    /\ UNCHANGED <<texts, reqId, idx, first, result, out, executor, future,
                   calls, memory, dispatched>>

DetectSpec == DetectInit /\ [][DetectChanges]_vars

\* ------------------------------------------------------------------------
\* The detection on documents with multi-level and malformed numbers
\* ------------------------------------------------------------------------

\* Header lines "1.2 a" and "1.10 a", and the lines "1. a" and "2." whose
\* number ends in a dot
Line1p2a == <<"1", ".", "2", " ", "a">>

Line1p10a == <<"1", ".", "1", "0", " ", "a">>

Line1dota == <<"1", ".", " ", "a">>

Line2dot == <<"2", ".">>

NumberedLines == {Line1a, Line1p2a, Line1p10a, Line2a, Line1dota, Line2dot}

NumberedDocs == DocsOver(NumberedLines)

NumberedInit ==
    /\ texts \in NumberedDocs \X NumberedDocs
    /\ Idle

NumberedSpec == NumberedInit /\ [][DetectChanges]_vars

\* ------------------------------------------------------------------------
\* The paragraph diff on its own: diff_paragraphs(old_paras, new_paras)
\* ------------------------------------------------------------------------

\* Most paragraphs of a list given to diff_paragraphs
MaxParas == 3

\* The paragraphs "a", "b" and "c"
DiffParagraphs == {<<"a">>, <<"b">>, <<"c">>}

DiffLists == SeqsUpTo(DiffParagraphs, MaxParas)

\* texts holds the two lists, old_paras and new_paras
DiffInit ==
    /\ texts \in DiffLists \X DiffLists
    /\ Idle

\* What diff_paragraphs returned
Diffed(diffs) == [kind |-> "diff", value |-> diffs]

\* result = diff_paragraphs(texts[1], texts[2])
Diff ==
    /\ pc = "idle"
    /\ result' = Diffed(diff_paragraphs(texts[1], texts[2]))
    /\ pc' = "diffed"
    /\ UNCHANGED <<texts, reqId, changes, idx, first, out, executor, future,
                   calls, memory, dispatched>>

DiffSpec == DiffInit /\ [][Diff]_vars

\* ------------------------------------------------------------------------
\* The classifier on its own: correct_change_type({'old': ..., 'new': ...})
\* ------------------------------------------------------------------------

\* Most characters of a text given to the classifier
MaxChars == 2

\* The texts given to the classifier: blanks and letters
ClassifyTexts == SeqsUpTo({" ", "a", "b"}, MaxChars)

ClassifyInit ==
    /\ texts \in ClassifyTexts \X ClassifyTexts
    /\ Idle

\* What correct_change_type returned
Classified(kind) == [kind |-> "change_type", value |-> kind]

\* result = correct_change_type({'old': texts[1], 'new': texts[2]})
Classify ==
    /\ pc = "idle"
    /\ result' = Classified(correct_change_type([old |-> texts[1], new |-> texts[2]]))
    /\ pc' = "classified"
    /\ UNCHANGED <<texts, reqId, changes, idx, first, out, executor, future,
                   calls, memory, dispatched>>

ClassifySpec == ClassifyInit /\ [][Classify]_vars

\* ------------------------------------------------------------------------
\* Properties of the stream
\* ------------------------------------------------------------------------

IsElem(ch) == ch.chunk = "elem"

\* The array elements of the body o, in the order they were produced
Elements(o) ==
    LET sel == SelectSeq(o, IsElem)
    IN  [i \in 1..Len(sel) |-> sel[i].value]

\* Element e was built from the record change: it has the record's section,
\* texts and paragraph positions
SameRecord(e, change) ==
    \A k \in (DOMAIN change) \ {"change_type"} :
        k \in DOMAIN e /\ e[k] = change[k]

\* The stream has produced its closing
Completed == pc \in {"closing", "done"}

\* C1: the emitted elements are, in order, the records of the input list,
\* each one once: element i is built from record i at every moment, and a
\* stream that ran to completion has emitted every record.
C1_EmissionOrder ==
    LET es == Elements(out)
    IN  /\ Len(es) <= Len(changes)
        /\ \A i \in 1..Len(es) : SameRecord(es[i], changes[i])
        /\ Completed => Len(es) = Len(changes)

\* A stream of three records, two of them analysed, ran to completion
C1_Witness ==
    /\ pc = "done"
    /\ Len(Elements(out)) = 3
    /\ Len(dispatched) >= 2

\* The result the generator holds behind its separator or has just emitted
LatestResult == IF pc = "sep" THEN result ELSE out[Len(out)].value

\* A step that resumes the generator with an analyzer call that raised
ResumesWithError ==
    /\ pc = "awaiting"
    /\ future.kind = "raised"
    /\ pc' \notin {"awaiting", "cancelled"}

\* What such a step must do: the stream goes on to emit the record, as an
\* Error result that carries the error detail, behind what was emitted
C2_ErrorStep ==
    ResumesWithError =>
        /\ pc' \in {"sep", "elem"}
        /\ SubSeq(out', 1, Len(out)) = out
        /\ SameRecord(LatestResult', changes[idx])
        /\ LatestResult'.change_summary = "Error during analysis"
        /\ LatestResult'.change_type = "Error"
        /\ LatestResult'.potential_impact = future.detail

\* The result held behind a separator is the element emitted next
C2_HeldStep ==
    (pc = "sep" /\ pc' = "elem") => out' = Append(out, ElemChunk(result))

\* In a completed stream every record has its element, with its own result:
\* an analysed record the summary written for it or the Error result
C2_Completed ==
    Completed =>
        LET es == Elements(out)
        IN  /\ Len(es) = Len(changes)
            /\ \A i \in 1..Len(es) :
                  NeedsAnalysis(changes[i]) =>
                      es[i].change_summary \in
                          {SummaryText(reqId, i), "Error during analysis"}

\* C2: failure isolation.  When the analyzer call of a record raises, the
\* record is emitted with summary 'Error during analysis', classification
\* 'Error' and the error detail as impact, the elements before it stay, and
\* the stream is not aborted: it goes on and, completed, holds every record
\* with its own result.
C2_FailureIsolation ==
    /\ []C2_Completed
    /\ [][C2_ErrorStep /\ C2_HeldStep]_vars

\* The call of the second of three records raised, the others were emitted
\* with their own results, and the stream was closed
C2_Witness ==
    /\ pc = "done"
    /\ Len(Elements(out)) = 3
    /\ Elements(out)[1].change_type # "Error"
    /\ Elements(out)[2].change_type = "Error"
    /\ Elements(out)[3].change_type # "Error"

\* o is the beginning of a framed body: the opening, then elements
\* alternating with separators, the closing after an element (or after the
\* opening) and nothing behind it
FramedPrefix(o) ==
    \A k \in 1..Len(o) :
        /\ (k = 1) <=> (o[k] = OpenChunk)
        /\ o[k] = SepChunk => (k > 1 /\ IsElem(o[k - 1]))
        /\ IsElem(o[k]) => (o[k - 1] = IF k = 2 THEN OpenChunk ELSE SepChunk)
        /\ o[k] = CloseChunk => (k = Len(o) /\ o[k - 1] # SepChunk)
        /\ o[k] # EmptyResponse

\* C3: framing.  The opening comes first and once, every element but the
\* first follows exactly one separator, no separator comes before the first
\* element or after the last, and the closing comes last and once: a
\* completed body is one object with one array.
C3_Framing ==
    \/ out = << >>
    \/ out = <<EmptyResponse>>
    \/ /\ FramedPrefix(out)
       /\ Completed => out[Len(out)] = CloseChunk
       /\ out[Len(out)] = SepChunk => pc \in {"sep", "cancelled"}

\* Completed bodies with three elements
C3_Witness ==
    /\ pc = "done"
    /\ Len(out) = 7
    /\ out[3] = SepChunk
    /\ out[5] = SepChunk
    /\ out[7] = CloseChunk

\* ------------------------------------------------------------------------
\* Properties of the detection
\* ------------------------------------------------------------------------

\* The section keys of the records of flat
SectionKeys(flat) == {flat[i].section : i \in DOMAIN flat}

OldSecs == split_into_sections(texts[1])

NewSecs == split_into_sections(texts[2])

OnlyOld == (DOMAIN OldSecs) \ (DOMAIN NewSecs)

OnlyNew == (DOMAIN NewSecs) \ (DOMAIN OldSecs)

\* The keys of both versions whose bodies differ, and those whose are equal
BothDiffer == {k \in (DOMAIN OldSecs) \cap (DOMAIN NewSecs) : OldSecs[k] # NewSecs[k]}

BothEqual == {k \in (DOMAIN OldSecs) \cap (DOMAIN NewSecs) : OldSecs[k] = NewSecs[k]}

\* C4 as stated: the keys of the change records are the keys only in old,
\* the keys only in new and the keys in both with differing bodies; no key
\* is in two records; no key with equal bodies is in a record.
C4_KeysAsStated ==
    pc = "detected" =>
        /\ SectionKeys(changes) = OnlyOld \cup OnlyNew \cup BothDiffer
        /\ \A i, j \in DOMAIN changes :
              i # j => changes[i].section # changes[j].section
        /\ SectionKeys(changes) \cap BothEqual = {}

\* C4 amended: the keys of the change records are the keys only in old and
\* the keys only in new that have at least one paragraph, and the keys in
\* both with differing bodies; no key with equal bodies is in a record.  (A
\* key has one record for each of its added, removed or changed paragraphs.)
C4_KeysOfChangedSections ==
    pc = "detected" =>
        /\ SectionKeys(changes) =
              {k \in OnlyOld : OldSecs[k] # << >>}
                 \cup {k \in OnlyNew : NewSecs[k] # << >>}
                 \cup BothDiffer
        /\ SectionKeys(changes) \cap BothEqual = {}

\* A detection with two records of one section, which is only in old
C4_Witness ==
    /\ pc = "detected"
    /\ Len(changes) = 2
    /\ changes[1].section = changes[2].section
    /\ changes[1].section \in OnlyOld

\* ------------------------------------------------------------------------
\* Properties of the stream, continued
\* ------------------------------------------------------------------------

\* C5 as stated: every emitted element carries the kind the classifier
\* gives its own old and new text.
C5_KindFromClassifier ==
    \A i \in 1..Len(Elements(out)) :
        Elements(out)[i].change_type = correct_change_type(Elements(out)[i])

\* The positions in sequence q
Range(q) == {q[i] : i \in DOMAIN q}

\* C6: a Removed record causes no analyzer call and is emitted with the
\* fixed result; the analyzer is called once for each Added or Modified
\* record and for no other: the calls are made in increasing position, only
\* for Added and Modified records, and every such record that was emitted
\* had its call.
C6_CallsAndCanned ==
    LET es == Elements(out)
    IN  /\ \A m, n \in DOMAIN dispatched : m < n => dispatched[m] < dispatched[n]
        /\ \A i \in Range(dispatched) :
              /\ i \in 1..Len(changes)
              /\ changes[i].change_type \in {"Added", "Modified"}
        /\ \A i \in 1..Len(es) :
              /\ changes[i].change_type \in {"Added", "Modified"}
                    => i \in Range(dispatched)
              /\ changes[i].change_type = "Removed" =>
                    /\ i \notin Range(dispatched)
                    /\ es[i].change_summary = "Section removed"
                    /\ es[i].change_type = "Deletion of Requirement"
                    /\ es[i].potential_impact = "Verify removal in SOPs."

\* A completed stream with a Removed record and an analysed record
C6_Witness ==
    /\ pc = "done"
    /\ \E i \in DOMAIN changes : changes[i].change_type = "Removed"
    /\ dispatched # << >>

\* The calls that start in this step
StartedCalls == {c \in calls' : c.stage = "running" /\ c \notin calls}

\* C7 as stated: what a call hands to the model depends on its own record
\* alone; nothing saved by an earlier call is in it.
C7_StatelessCalls ==
    [][\A c \in StartedCalls : ChainInput(c).history = << >>]_vars

\* C8 as stated: the wait for an analyzer call ends, whether or not the
\* model answers, so a stream whose consumer keeps reading gets closed.
C8_WaitEnds == (pc = "awaiting") ~> (pc # "awaiting")

\* C9 as stated: after the cancellation of a request no call is dispatched
\* and no element is emitted for it, and the call that was in flight has no
\* effect on any state when it ends.
C9_Cancellation ==
    [][(pc = "cancelled" /\ pc' = "cancelled") =>
          /\ dispatched' = dispatched
          /\ out' = out
          /\ \A c \in calls \ calls' : c.req = reqId => memory' = memory]_vars

\* The calls of request r that were submitted and have not ended
InFlight(r) == {c \in calls : c.req = r}

\* A step that dispatches a call of the current request
Dispatches == reqId' = reqId /\ dispatched' # dispatched

\* C10: bounded concurrency.  A request never has more than K = max_workers
\* = 1 analyzer calls in flight, and it dispatches the call of a record only
\* when none of its calls is in flight and the elements of all records
\* before it have been emitted.
C10_BoundedConcurrency ==
    /\ [](Cardinality(InFlight(reqId)) <= max_workers)
    /\ [][Dispatches =>
             /\ InFlight(reqId) = {}
             /\ dispatched' = Append(dispatched, idx)
             /\ Len(Elements(out)) = idx - 1]_vars

\* The call of the second record is in flight, behind the first element
C10_Witness ==
    /\ pc = "awaiting"
    /\ Len(Elements(out)) = 1
    /\ \E c \in InFlight(reqId) : c.idx = 2 /\ c.stage = "running"

\* ------------------------------------------------------------------------
\* Properties of the detection, continued
\* ------------------------------------------------------------------------

\* The section and the kind of each record of flat, in order
SectionsAndKinds(flat) ==
    [i \in DOMAIN flat |-> <<flat[i].section, flat[i].change_type>>]

\* C11 as stated: on the end-to-end scenario the detection gives exactly a
\* Modified record of section "1" and then an Added record of section "3",
\* and no record of section "2".
C11_Scenario ==
    (pc = "detected" /\ texts = <<ScenarioOld, ScenarioNew>>) =>
        SectionsAndKinds(changes) =
            << << <<"1">>, "Modified" >>, << <<"3">>, "Added" >> >>

\* C12: detection on two identical texts (the empty text among them) gives
\* the empty change list, and whenever the change list of a request is
\* empty the handler has answered with the empty-changes response: the
\* streamer was not started (no executor, no chunk of a stream) and no
\* analyzer call was submitted for the request.
C12_IdenticalAndEmpty ==
    /\ (reqId > 0 /\ texts[1] = texts[2]) => changes = << >>
    /\ (reqId > 0 /\ changes = << >>) =>
          /\ pc = "responded"
          /\ out = <<EmptyResponse>>
          /\ executor = "none"
          /\ dispatched = << >>
          /\ InFlight(reqId) = {}

\* The second request uploads one non-empty document twice, after a first
\* request whose analysis was saved in the memory
C12_Witness ==
    /\ reqId = 2
    /\ texts[1] = texts[2]
    /\ texts[1] # << >>
    /\ pc = "responded"
    /\ memory # << >>

\* The sections of the records of flat, in order
SectionsOf(flat) == [i \in DOMAIN flat |-> flat[i].section]

\* Record q is record r seen from the other direction: the same section, the
\* kind kindOfQ, and old and new swapped
Mirrors(q, r, kindOfQ) ==
    /\ q.section = r.section
    /\ q.change_type = kindOfQ
    /\ q.old = r.new
    /\ q.new = r.old

\* Every record of flat of kind kind has its mirror of kind mirrorKind in rev
MirroredIn(flat, rev, kind, mirrorKind) ==
    \A i \in DOMAIN flat :
        flat[i].change_type = kind =>
            \E j \in DOMAIN rev : Mirrors(rev[j], flat[i], mirrorKind)

\* The change lists of the detection on (new, old)
ReverseChanges == FlatChanges(texts[2], texts[1])

\* C13 as stated: the change list of (B, A) has the same section keys in the
\* same order as that of (A, B); every Added record of one direction is in
\* the other as a Removed record with old and new swapped, and every
\* Modified record is in both with old and new swapped.
C13_Symmetry ==
    pc = "detected" =>
        \A rev \in ReverseChanges :
            /\ SectionsOf(rev) = SectionsOf(changes)
            /\ MirroredIn(changes, rev, "Added", "Removed")
            /\ MirroredIn(rev, changes, "Added", "Removed")
            /\ MirroredIn(changes, rev, "Modified", "Modified")
            /\ MirroredIn(rev, changes, "Modified", "Modified")

\* Every Added record of flat whose section is in one version only has its
\* mirror, a Removed record, in rev
AddedOfOneSidedMirroredIn(flat, rev) ==
    LET oneSided == OnlyOld \cup OnlyNew
    IN  \A i \in DOMAIN flat :
            (flat[i].change_type = "Added" /\ flat[i].section \in oneSided)
                => \E j \in DOMAIN rev : Mirrors(rev[j], flat[i], "Removed")

\* C13 amended: the change list of (B, A) has the same set of section keys
\* as that of (A, B), and for a section that is in one version only every
\* Added record of one direction is in the other as a Removed record with
\* old and new swapped.  (For a section of both versions the two directions
\* may match the paragraphs differently.)
C13_SymmetricSections ==
    pc = "detected" =>
        \A rev \in ReverseChanges :
            /\ SectionKeys(rev) = SectionKeys(changes)
            /\ AddedOfOneSidedMirroredIn(changes, rev)
            /\ AddedOfOneSidedMirroredIn(rev, changes)

\* A detection with an Added record of a section that only the new version
\* has, next to a section of both versions whose paragraphs differ
C13_Witness ==
    /\ pc = "detected"
    /\ BothDiffer # {}
    /\ \E i \in DOMAIN changes :
          changes[i].change_type = "Added" /\ changes[i].section \in OnlyNew

\* ------------------------------------------------------------------------
\* Properties of the parser
\* ------------------------------------------------------------------------

\* The keys that occur as a header line of text
HeaderKeys(text) ==
    LET lines == TextLines(text)
        matches == [i \in DOMAIN lines |-> SectionMatch(lines[i])]
    IN  {matches[i].group1 : i \in {n \in DOMAIN lines : matches[n].matched}}

\* The lines of lines that come before its first header line
RECURSIVE LinesBeforeHeader(_)
LinesBeforeHeader(lines) ==
    IF lines = << >> \/ SectionMatch(Head(lines)).matched THEN << >>
    ELSE <<Head(lines)>> \o LinesBeforeHeader(Tail(lines))

\* The paragraphs of body lines: the runs of non-blank lines, each joined and
\* stripped; cur is the run being read
RECURSIVE ParagraphsFrom(_, _)
ParagraphsFrom(lines, cur) ==
    LET done == IF cur = << >> THEN << >> ELSE <<Strip(JoinLines(cur))>>
    IN  IF lines = << >> THEN done
        ELSE IF Strip(Head(lines)) = << >>
             THEN done \o ParagraphsFrom(Tail(lines), << >>)
             ELSE ParagraphsFrom(Tail(lines), Append(cur, Head(lines)))

\* The paragraphs of the text that precedes the first header of text
PreHeaderParagraphs(text) ==
    ParagraphsFrom(LinesBeforeHeader(TextLines(text)), << >>)

DefaultSection == <<"0">>

\* C14 as stated: the parsed map of a text has only keys that occur as a
\* header line of the text, so text before the first header is in no
\* section, a text without header has no section, and two texts without
\* header give the empty change list.
C14_PreHeaderDiscarded ==
    pc = "detected" =>
        /\ \A n \in {1, 2} :
              DOMAIN split_into_sections(texts[n]) \subseteq HeaderKeys(texts[n])
        /\ (HeaderKeys(texts[1]) = {} /\ HeaderKeys(texts[2]) = {})
              => changes = << >>

\* C14 amended: the parsed map of a text has only keys that occur as a
\* header line of the text and the default key '0'; unless '0' is itself a
\* header of the text, section '0' holds exactly the paragraphs that precede
\* the first header (and is absent when there are none); two texts without
\* header give records of section '0' only, and none exactly when their
\* paragraphs are equal.
C14_PreHeaderInDefaultSection ==
    pc = "detected" =>
        LET headers == [n \in {1, 2} |-> HeaderKeys(texts[n])]
            before == [n \in {1, 2} |-> PreHeaderParagraphs(texts[n])]
        IN  /\ \A n \in {1, 2} :
                  LET secs == split_into_sections(texts[n])
                  IN  /\ DOMAIN secs \subseteq headers[n] \cup {DefaultSection}
                      /\ DefaultSection \notin headers[n] =>
                            /\ GetParas(secs, DefaultSection) = before[n]
                            /\ DefaultSection \in DOMAIN secs <=> before[n] # << >>
            /\ (headers[1] = {} /\ headers[2] = {}) =>
                  /\ SectionKeys(changes) \subseteq {DefaultSection}
                  /\ changes = << >> <=> before[1] = before[2]

\* The old version starts with body text and has a header after it, and the
\* detection reports a paragraph of section '0'
C14_Witness ==
    /\ pc = "detected"
    /\ PreHeaderParagraphs(texts[1]) # << >>
    /\ HeaderKeys(texts[1]) # {}
    /\ \E i \in DOMAIN changes : changes[i].section = DefaultSection

\* ------------------------------------------------------------------------
\* Properties of the classifier
\* ------------------------------------------------------------------------

\* The table of the change kinds, read on the texts old and new
KindByTable(kind, old, new) ==
    /\ kind = "Added" <=> (old = << >> /\ new # << >>)
    /\ kind = "Removed" <=> (old # << >> /\ new = << >>)
    /\ kind = "Modified" <=> (old # << >> /\ new # << >> /\ old # new)
    /\ kind = "Unchanged" <=> old = new

\* C15 as stated: the classifier follows the table on the texts as given,
\* also when they differ only in leading or trailing whitespace or consist
\* only of whitespace.
C15_ClassifierTable ==
    pc = "classified" => KindByTable(result.value, texts[1], texts[2])

\* C15 amended: the classifier follows the table on the texts with their
\* leading and trailing whitespace removed.
C15_ClassifierTableStripped ==
    pc = "classified" =>
        KindByTable(result.value, Strip(texts[1]), Strip(texts[2]))

\* Two different texts that are equal but for whitespace were classified
C15_Witness ==
    /\ pc = "classified"
    /\ texts[1] # texts[2]
    /\ Strip(texts[1]) = Strip(texts[2])
    /\ Strip(texts[1]) # << >>
    /\ result.value = "Unchanged"

\* The blocks of lines, in order: a block is a header line with the lines up
\* to the next header, and has the header's key and the paragraphs of its
\* text (the text after the number on the header line is the first line of
\* the first paragraph); lines before the first header are a block of the
\* default key.
RECURSIVE Blocks(_)
Blocks(lines) ==
    IF lines = << >> THEN << >>
    ELSE LET m == SectionMatch(Head(lines))
             body == LinesBeforeHeader(Tail(lines))
             after == SubSeq(lines, Len(body) + 2, Len(lines))
             rest == Strip(SubSeq(Head(lines), m.end + 1, Len(Head(lines))))
             block ==
                 IF m.matched
                 THEN [key |-> m.group1,
                       paras |-> ParagraphsFrom(body,
                                    IF rest # << >> THEN <<rest>> ELSE << >>)]
                 ELSE [key |-> DefaultSection,
                       paras |-> ParagraphsFrom(<<Head(lines)>> \o body, << >>)]
         IN  <<block>> \o Blocks(after)

\* The positions of the blocks of key k
BlocksOfKey(blocks, k) == {i \in DOMAIN blocks : blocks[i].key = k}

\* The paragraphs of the blocks of key k, one block after the other
RECURSIVE ParagraphsOfKey(_, _)
ParagraphsOfKey(blocks, k) ==
    IF blocks = << >> THEN << >>
    ELSE (IF Head(blocks).key = k THEN Head(blocks).paras ELSE << >>)
            \o ParagraphsOfKey(Tail(blocks), k)

\* The keys that are the header of more than one block
RepeatedKeys(text) ==
    {k \in HeaderKeys(text) :
        Cardinality(BlocksOfKey(Blocks(TextLines(text)), k)) > 1}

\* C16 as stated: a key that is a header more than once has, in the parsed
\* map, exactly the paragraphs of the block after its last header.
C16_LastOverwrites ==
    pc = "detected" =>
        \A n \in {1, 2} :
            LET blocks == Blocks(TextLines(texts[n]))
            IN  \A k \in RepeatedKeys(texts[n]) :
                    split_into_sections(texts[n])[k] =
                        blocks[SetMax(BlocksOfKey(blocks, k))].paras

\* C16 amended: every key of the parsed map, the repeated ones too, has the
\* paragraphs of all the blocks of that key, in the order of the text.
C16_BlocksAccumulate ==
    pc = "detected" =>
        \A n \in {1, 2} :
            LET blocks == Blocks(TextLines(texts[n]))
                secs == split_into_sections(texts[n])
            IN  /\ DOMAIN secs \subseteq {blocks[i].key : i \in DOMAIN blocks}
                /\ \A i \in DOMAIN blocks :
                      GetParas(secs, blocks[i].key) =
                          ParagraphsOfKey(blocks, blocks[i].key)

\* The old version has a key twice as a header, each time with a paragraph
C16_Witness ==
    /\ pc = "detected"
    /\ \E k \in RepeatedKeys(texts[1]) :
          \A i \in BlocksOfKey(Blocks(TextLines(texts[1])), k) :
              Blocks(TextLines(texts[1]))[i].paras # << >>

\* ------------------------------------------------------------------------
\* Properties of the section order
\* ------------------------------------------------------------------------

\* The segments of key k between its dots, as integers
KeySegments(k) ==
    LET segs == SplitDotsFrom(k, << >>)
    IN  [i \in DOMAIN segs |-> ParseInt(segs[i])]

\* SectionKeyOrdering: key x sorts before key y when, after a common run of
\* n equal segments, x has the smaller next segment or x has ended and y
\* has not.
KeyPrecedes(x, y) ==
    LET sx == KeySegments(x)
        sy == KeySegments(y)
    IN  \E n \in 0..Min2(Len(sx), Len(sy)) :
            /\ \A m \in 1..n : sx[m] = sy[m]
            /\ IF n < Len(sx) /\ n < Len(sy)
               THEN sx[n + 1] < sy[n + 1]
               ELSE n = Len(sx) /\ n < Len(sy)

Key1 == <<"1">>

Key1p2 == <<"1", ".", "2">>

Key1p10 == <<"1", ".", "1", "0">>

Key2 == <<"2">>

\* C17: the records are of keys of the two versions and come in
\* SectionKeyOrdering (no record's key sorts before the key of an earlier
\* record); a change list with one record for each of 1, 1.2, 1.10 and 2
\* has them in this order.
C17_SectionKeyOrdering ==
    pc = "detected" =>
        /\ SectionKeys(changes) \subseteq (DOMAIN OldSecs) \cup (DOMAIN NewSecs)
        /\ \A i, j \in DOMAIN changes :
              i < j => ~KeyPrecedes(changes[j].section, changes[i].section)
        /\ (Len(changes) = 4 /\ SectionKeys(changes) = {Key1, Key1p2, Key1p10, Key2})
              => SectionsOf(changes) = <<Key1, Key1p2, Key1p10, Key2>>

\* A detection with records of the sections 1, 1.2, 1.10 and 2, in this order
C17_Witness ==
    /\ pc = "detected"
    /\ SectionsOf(changes) = <<Key1, Key1p2, Key1p10, Key2>>

\* Number of leading digits of line
RECURSIVE DigitRunLen(_)
DigitRunLen(line) ==
    IF line = << >> \/ ~IsDigit(Head(line)) THEN 0
    ELSE 1 + DigitRunLen(Tail(line))

\* line starts with digits followed by a '.' that no digit follows
EndsNumberWithDot(line) ==
    LET n == DigitRunLen(line)
    IN  /\ n > 0
        /\ Len(line) > n
        /\ line[n + 1] = "."
        /\ (Len(line) = n + 1 \/ ~IsDigit(line[n + 2]))

\* The section that line i of lines falls in: the key of the last header
\* line before it, or the default key
RECURSIVE CurrentSectionAt(_, _)
CurrentSectionAt(lines, i) ==
    IF i <= 1 THEN DefaultSection
    ELSE IF SectionMatch(lines[i - 1]).matched
         THEN SectionMatch(lines[i - 1]).group1
         ELSE CurrentSectionAt(lines, i - 1)

\* line is one of the lines of a paragraph of paras
IsLineOf(line, paras) ==
    \E n \in DOMAIN paras :
        \E l \in DOMAIN SplitLines(paras[n]) : SplitLines(paras[n])[l] = line

ReplaceBlocks(old, new) ==
    {op \in Range(get_opcodes(old, new)) : op[1] = "replace"}

\* The m-th pair (m = 0, 1, ...) of replace block op
PairOf(op, m, old, new) ==
    << <<op[2] + m, old[op[2] + m + 1]>>, <<op[4] + m, new[op[4] + m + 1]>> >>

\* C19: of a replace block the first min(oldLen, newLen) paragraphs are
\* reported as changed pairs, position by position, and the rest of the
\* longer side as added or removed and in no pair; every changed pair is
\* such a pair of a replace block and its two texts differ; equal lists
\* give empty added, removed and changed.
C19_ReplaceBlocks ==
    pc = "diffed" =>
        LET old == texts[1]
            new == texts[2]
            d == result.value
            blocks == ReplaceBlocks(old, new)
        IN  /\ \A op \in blocks :
                  LET n == Min2(op[3] - op[2], op[5] - op[4])
                  IN  /\ \A m \in 0..(n - 1) :
                            PairOf(op, m, old, new) \in Range(d.changed)
                      /\ \A i \in (op[2] + n)..(op[3] - 1) :
                            /\ <<i, old[i + 1]>> \in Range(d.removed)
                            /\ \A c \in Range(d.changed) : c[1][1] # i
                      /\ \A j \in (op[4] + n)..(op[5] - 1) :
                            /\ <<j, new[j + 1]>> \in Range(d.added)
                            /\ \A c \in Range(d.changed) : c[2][1] # j
            /\ \A c \in Range(d.changed) :
                  /\ c[1][2] # c[2][2]
                  /\ \E op \in blocks :
                        \E m \in 0..(Min2(op[3] - op[2], op[5] - op[4]) - 1) :
                            c = PairOf(op, m, old, new)
            /\ old = new =>
                  d = [added |-> << >>, removed |-> << >>, changed |-> << >>]

\* A diff with a replace block that has a pair and an excess on one side
C19_Witness ==
    /\ pc = "diffed"
    /\ \E op \in ReplaceBlocks(texts[1], texts[2]) :
          op[3] - op[2] # op[5] - op[4]

\* The elements of paras whose position (from 0) is not in reported, in order
RECURSIVE UnreportedFrom(_, _, _)
UnreportedFrom(paras, reported, i) ==
    IF i >= Len(paras) THEN << >>
    ELSE (IF i \in reported THEN << >> ELSE <<paras[i + 1]>>)
            \o UnreportedFrom(paras, reported, i + 1)

\* All elements of sequence q are different
NoRepeats(q) == \A m, n \in DOMAIN q : m # n => q[m] # q[n]

\* C20: every old position is reported at most once in removed and changed,
\* every new position at most once in added and changed; the reported
\* positions are in range and carry the paragraph at that position; the
\* old paragraphs not reported are, in order, the new paragraphs not
\* reported.
C20_EveryParagraphOnce ==
    pc = "diffed" =>
        LET old == texts[1]
            new == texts[2]
            d == result.value
            oldEntries == d.removed \o [n \in DOMAIN d.changed |-> d.changed[n][1]]
            newEntries == d.added \o [n \in DOMAIN d.changed |-> d.changed[n][2]]
            oldReported == [n \in DOMAIN oldEntries |-> oldEntries[n][1]]
            newReported == [n \in DOMAIN newEntries |-> newEntries[n][1]]
        IN  /\ NoRepeats(oldReported)
            /\ NoRepeats(newReported)
            /\ \A n \in DOMAIN oldEntries :
                  /\ oldEntries[n][1] \in 0..(Len(old) - 1)
                  /\ oldEntries[n][2] = old[oldEntries[n][1] + 1]
            /\ \A n \in DOMAIN newEntries :
                  /\ newEntries[n][1] \in 0..(Len(new) - 1)
                  /\ newEntries[n][2] = new[newEntries[n][1] + 1]
            /\ UnreportedFrom(old, Range(oldReported), 0)
                  = UnreportedFrom(new, Range(newReported), 0)
            /\ Len(old) - Len(d.removed) - Len(d.changed)
                  = Len(new) - Len(d.added) - Len(d.changed)

\* A diff with a changed pair and a removed paragraph that leaves a
\* paragraph of each list unreported
C20_Witness ==
    /\ pc = "diffed"
    /\ result.value.changed # << >>
    /\ result.value.removed # << >>
    /\ Len(texts[1]) > Len(result.value.removed) + Len(result.value.changed)

====
